---- MODULE Spec2Model ----
(***************************************************************************)
(* ParticlePDF (src/optbayesexpt/particlepdf.py): a weighted particle      *)
(* cloud with Bayesian reweighting and resampling.                         *)
(*                                                                         *)
(* The weights are numpy float64 arrays.  The model keeps what float64     *)
(* arithmetic does that real arithmetic does not: every operation rounds   *)
(* to nearest (ties to even), and division by zero yields inf or nan       *)
(* instead of raising.  The significand is MantBits wide instead of 53 so  *)
(* that every intermediate fits the checker's integers; exponents are      *)
(* unbounded (no overflow or underflow within the bounded runs), and the   *)
(* sign of zero, which no operation of the class can observe, is dropped.  *)
(***************************************************************************)
EXTENDS Integers, Sequences, FiniteSets, TLC

\* ------------------------------------------------------------------ bounds
MantBits == 6       \* significand width of the modelled floating point
MaxParticles == 3   \* largest n_particles of a prior / samples matrix
MaxDims == 2        \* largest n_dims of a prior / samples matrix
MaxCalls == 3       \* number of method calls made on one instance

\* ------------------------------------------------- floating-point values
\* A value is [k, m, e]: k = "fin" is m * 2^e with m odd (or m = 0, e = 0),
\* k = "inf" is m * infinity (m = 1 or -1), k = "nan" is not-a-number.
Fin(m, e) == [k |-> "fin", m |-> m, e |-> e]
NaN == [k |-> "nan", m |-> 0, e |-> 0]
Inf(s) == [k |-> "inf", m |-> s, e |-> 0]
Zero == Fin(0, 0)
One == Fin(1, 0)

Abs(x) == IF x < 0 THEN -x ELSE x
Sgn(x) == IF x < 0 THEN -1 ELSE IF x > 0 THEN 1 ELSE 0

Pow2(n) == 2 ^ n

\* canonical form of m * 2^e: trailing zero bits of m move to the exponent
RECURSIVE Canon(_, _)
Canon(m, e) ==
    IF m = 0 THEN Zero
    ELSE IF m % 2 = 0 THEN Canon(m \div 2, e + 1)
    ELSE Fin(m, e)

\* round a / d * 2^e (a >= 0, d > 0) to MantBits significant bits,
\* round-to-nearest, ties-to-even; s is the sign
RECURSIVE RoundPos(_, _, _, _)
RoundPos(s, a, d, e) ==
    IF a = 0 THEN Zero
    ELSE IF a >= d * Pow2(MantBits) THEN RoundPos(s, a, 2 * d, e + 1)
    ELSE IF a < d * Pow2(MantBits - 1) THEN RoundPos(s, 2 * a, d, e - 1)
    ELSE LET q == a \div d
             r == a % d
             up == (2 * r > d) \/ (2 * r = d /\ q % 2 = 1)
         IN Canon(s * (IF up THEN q + 1 ELSE q), e)

Round(n, d, e) == RoundPos(Sgn(n), Abs(n), d, e)

FromInt(i) == Round(i, 1, 0)

IsFin(x) == x.k = "fin"
IsNaN(x) == x.k = "nan"
IsInf(x) == x.k = "inf"
IsZero(x) == x.k = "fin" /\ x.m = 0

\* x * y in float64
FMul(x, y) ==
    IF IsNaN(x) \/ IsNaN(y) THEN NaN
    ELSE IF IsInf(x) \/ IsInf(y)
         THEN IF IsZero(x) \/ IsZero(y) THEN NaN
              ELSE Inf(Sgn(x.m) * Sgn(y.m))
    ELSE Round(x.m * y.m, 1, x.e + y.e)

\* x + y for finite x, y; an operand more than 2 * MantBits binary places
\* below the other cannot change the rounded sum
FinAdd(x, y) ==
    IF x.m = 0 THEN y
    ELSE IF y.m = 0 THEN x
    ELSE IF x.e - y.e > 2 * MantBits THEN x
    ELSE IF y.e - x.e > 2 * MantBits THEN y
    ELSE IF x.e >= y.e
         THEN Round(x.m * Pow2(x.e - y.e) + y.m, 1, y.e)
         ELSE Round(y.m * Pow2(y.e - x.e) + x.m, 1, x.e)

\* x + y in float64
FAdd(x, y) ==
    IF IsNaN(x) \/ IsNaN(y) THEN NaN
    ELSE IF IsInf(x) /\ IsInf(y) THEN (IF x.m = y.m THEN x ELSE NaN)
    ELSE IF IsInf(x) THEN x
    ELSE IF IsInf(y) THEN y
    ELSE FinAdd(x, y)

\* x / y in float64 (numpy warns and returns inf or nan on a zero divisor)
FDiv(x, y) ==
    IF IsNaN(x) \/ IsNaN(y) THEN NaN
    ELSE IF IsInf(x) THEN (IF IsInf(y) THEN NaN
                           ELSE Inf(x.m * (IF y.m < 0 THEN -1 ELSE 1)))
    ELSE IF IsInf(y) THEN Zero
    ELSE IF y.m = 0 THEN (IF x.m = 0 THEN NaN ELSE Inf(Sgn(x.m)))
    ELSE Round(x.m * Sgn(y.m), Abs(y.m), x.e - y.e)

\* x < y in float64: every comparison with nan is false
FLess(x, y) ==
    IF IsNaN(x) \/ IsNaN(y) THEN FALSE
    ELSE IF IsInf(x) THEN x.m = -1 /\ ~(IsInf(y) /\ y.m = -1)
    ELSE IF IsInf(y) THEN y.m = 1
    ELSE IF Sgn(x.m) # Sgn(y.m) THEN Sgn(x.m) < Sgn(y.m)
    ELSE IF x.e - y.e > MantBits THEN x.m < 0
    ELSE IF y.e - x.e > MantBits THEN x.m > 0
    ELSE IF x.e >= y.e THEN x.m * Pow2(x.e - y.e) < y.m
    ELSE x.m < y.m * Pow2(y.e - x.e)

\* -x
FNeg(x) == IF IsFin(x) THEN Fin(-(x.m), x.e) ELSE IF IsInf(x) THEN Inf(-(x.m)) ELSE NaN

\* x <= 0 in float64
FNonPos(x) == IF IsNaN(x) THEN FALSE ELSE x.m <= 0

\* ---------------------------------------------------------- numpy arrays
\* np.sum / the @ product of a 1-D array: a left-to-right accumulation
RECURSIVE SumTo(_, _)
SumTo(v, i) == IF i = 0 THEN Zero ELSE FAdd(SumTo(v, i - 1), v[i])
FSum(v) == SumTo(v, Len(v))

\* elementwise product of two arrays of the same length
VMul(v, w) == [i \in 1..Len(v) |-> FMul(v[i], w[i])]

\* v / scalar
VDiv(v, x) == [i \in 1..Len(v) |-> FDiv(v[i], x)]

\* v @ v
Dot(v) == FSum(VMul(v, v))

\* np.ones(n) / n
Uniform(n) == [i \in 1..n |-> FDiv(One, FromInt(n))]

\* v * w under numpy broadcasting: equal lengths pair up, a length-1 operand
\* is stretched, anything else cannot be broadcast
CanBroadcast(v, w) == Len(v) = Len(w) \/ Len(v) = 1 \/ Len(w) = 1
Broadcast(v, w) ==
    IF Len(v) = Len(w) THEN VMul(v, w)
    ELSE IF Len(w) = 1 THEN [i \in 1..Len(v) |-> FMul(v[i], w[1])]
    ELSE [i \in 1..Len(w) |-> FMul(v[1], w[i])]

\* ------------------------------------------------------------------ inputs
\* particle coordinates are opaque to every operation modelled here but the
\* shape of the matrix; a cloud is an n_dims x n_particles matrix
Coords == {Zero, One}
Cloud(d, n, v) == [i \in 1..d |-> [j \in 1..n |-> v]]
\* the priors a caller may construct from, and the samples passed to set_pdf
Priors == {Cloud(d, n, Zero) : d \in 1..MaxDims, n \in 1..MaxParticles}
Samples == {Cloud(d, n, One) : d \in 1..MaxDims, n \in 1..MaxParticles}

\* the weights=None default of set_pdf
None == <<[k |-> "none", m |-> 0, e |-> 0]>>

\* the 1-D arrays of every length up to MaxParticles over a set of values
Arrays(vals) == UNION {[1..len -> vals] : len \in 1..MaxParticles}

\* likelihood arrays a caller may pass to bayesian_update
Likelihoods == Arrays({Zero, One, FromInt(2)})

\* weight arrays a caller may pass to set_pdf; negative weights are accepted
Weights == Arrays({FromInt(-1), One})

Thresholds == {Fin(1, -1), One}

\* ------------------------------------------------------------------- state
VARIABLES particles, n_particles, n_dims, particle_weights, just_resampled,
          tuning_parameters, call, ncalls

vars == <<particles, n_particles, n_dims, particle_weights, just_resampled,
          tuning_parameters, call, ncalls>>

Call(op, raised) == [op |-> op, raised |-> raised]

\* ParticlePDF.__init__
Init ==
    /\ particles \in Priors
    /\ n_particles = Len(particles[1])
    /\ n_dims = Len(particles)
    /\ particle_weights = Uniform(Len(particles[1]))
    /\ just_resampled = FALSE
    /\ tuning_parameters = [a_param |-> Round(49, 50, 0),
                            resample_threshold |-> Fin(1, -1),
                            auto_resample |-> TRUE]
    /\ call = Call("__init__", "none")
    /\ ncalls = 0

\* ------------------------------------------------------------- operations
\* the result of a method: the exception it raised ("none" when it returned)
\* and the attributes it left behind
Result(raised, parts, weights, flag) ==
    [raised |-> raised, particles |-> parts, weights |-> weights,
     just_resampled |-> flag]

\* rng.choice(n, size, p=w) rejects p unless it is a probability vector of
\* length n: no nan, no negative entry, sum within sqrt(eps) of 1
ChoiceRejects(w, n) ==
    LET p_sum == FSum(w)
        dev == FAdd(p_sum, FNeg(One))
    IN \/ Len(w) # n
       \/ IsNaN(p_sum)
       \/ \E i \in 1..Len(w) : FLess(w[i], Zero)
       \/ FLess(Fin(1, 1 - MantBits), FMul(dev, dev))

\* np.cov(particles, aweights=w) divides by fact = sum(w) - sum(w*w)/sum(w)
\* and, when fact <= 0, by zero: the covariance is then not finite
CovarianceNotFinite(w) ==
    LET w_sum == FSum(w)
        fact == FAdd(w_sum, FNeg(FDiv(Dot(w), w_sum)))
    IN FNonPos(fact)

\* ParticlePDF.randdraw: raises when rng.choice rejects the weights
randdraw_raises(w, n) == IF ChoiceRejects(w, n) THEN "ValueError" ELSE "none"

\* ParticlePDF.mean: np.average(particles, axis=1, weights=w)
mean_raises(w, n) ==
    IF Len(w) # n THEN "ValueError"
    ELSE IF IsZero(FSum(w)) THEN "ZeroDivisionError"
    ELSE "none"

\* ParticlePDF.resample.  The nudged coordinates are random; a covariance
\* that is not finite either makes multivariate_normal raise or comes out
\* as nan coordinates, depending on the linear-algebra build
resample_results(parts, w, n, d, flag) ==
    IF randdraw_raises(w, n) # "none"
    THEN {Result(randdraw_raises(w, n), parts, w, flag)}
    ELSE IF CovarianceNotFinite(w)
    THEN {Result("LinAlgError", parts, w, flag),
          Result("none", Cloud(d, n, NaN), Uniform(n), flag)}
    ELSE {Result("none", Cloud(d, n, v), Uniform(n), flag) : v \in Coords}

\* a slip in the effective sample size: 1 / sum(w) instead of 1 / (w @ w)
NEff_of_sum(w) == FDiv(One, FSum(w))

\* n_eff = 1 / (w @ w), and the test n_eff / n_particles < resample_threshold
NEff(w) == FDiv(One, Dot(w))
NeedsResample(w, n, threshold) == FLess(FDiv(NEff(w), FromInt(n)), threshold)

\* ParticlePDF.resample_test
resample_test_results(parts, w, n, d, flag, threshold) ==
    IF NeedsResample(w, n, threshold)
    THEN {IF r.raised = "none"
          THEN Result("none", r.particles, r.weights, TRUE)
          ELSE r : r \in resample_results(parts, w, n, d, flag)}
    ELSE {Result("none", parts, w, FALSE)}

\* a slip in bayesian_update: the product is stored without renormalising
bayesian_update_unnormalized(parts, w, n, d, flag, tuning, likelihood) ==
    IF ~CanBroadcast(w, likelihood)
    THEN {Result("ValueError", parts, w, flag)}
    ELSE LET temp == Broadcast(w, likelihood)
         IN IF tuning.auto_resample
            THEN resample_test_results(parts, temp, n, d, flag,
                                       tuning.resample_threshold)
            ELSE {Result("none", parts, temp, flag)}

\* a slip in bayesian_update: resample_test runs whatever auto_resample says
bayesian_update_always_tests(parts, w, n, d, flag, tuning, likelihood) ==
    IF ~CanBroadcast(w, likelihood)
    THEN {Result("ValueError", parts, w, flag)}
    ELSE LET temp == Broadcast(w, likelihood)
             new_weights == VDiv(temp, FSum(temp))
         IN resample_test_results(parts, new_weights, n, d, flag,
                                  tuning.resample_threshold)

\* ParticlePDF.bayesian_update
bayesian_update_results(parts, w, n, d, flag, tuning, likelihood) ==
    IF ~CanBroadcast(w, likelihood)
    THEN {Result("ValueError", parts, w, flag)}
    ELSE LET temp == Broadcast(w, likelihood)
             new_weights == VDiv(temp, FSum(temp))
         IN IF tuning.auto_resample
            THEN resample_test_results(parts, new_weights, n, d, flag,
                                       tuning.resample_threshold)
            ELSE {Result("none", parts, new_weights, flag)}

Returns(op, r) ==
    /\ particles' = r.particles
    /\ particle_weights' = r.weights
    /\ just_resampled' = r.just_resampled
    /\ call' = Call(op, r.raised)
    /\ ncalls' = ncalls + 1

set_pdf(samples, weights) ==
    /\ ncalls < MaxCalls
    /\ particles' = samples
    /\ n_particles' = Len(samples[1])
    /\ n_dims' = Len(samples)
    /\ IF weights = None
       THEN /\ particle_weights' = Uniform(Len(samples[1]))
            /\ call' = Call("set_pdf", "none")
       ELSE IF Len(weights) # Len(samples[1])
       THEN /\ particle_weights' = particle_weights
            /\ call' = Call("set_pdf", "ValueError")
       ELSE /\ particle_weights' = VDiv(weights, FSum(weights))
            /\ call' = Call("set_pdf", "none")
    /\ ncalls' = ncalls + 1
    /\ UNCHANGED <<just_resampled, tuning_parameters>>

bayesian_update(likelihood) ==
    /\ ncalls < MaxCalls
    /\ \E r \in bayesian_update_results(particles, particle_weights,
                   n_particles, n_dims, just_resampled, tuning_parameters,
                   likelihood) :
          Returns("bayesian_update", r)
    /\ UNCHANGED <<n_particles, n_dims, tuning_parameters>>

resample_test ==
    /\ ncalls < MaxCalls
    /\ \E r \in resample_test_results(particles, particle_weights,
                   n_particles, n_dims, just_resampled,
                   tuning_parameters.resample_threshold) :
          Returns("resample_test", r)
    /\ UNCHANGED <<n_particles, n_dims, tuning_parameters>>

resample ==
    /\ ncalls < MaxCalls
    /\ \E r \in resample_results(particles, particle_weights, n_particles,
                                 n_dims, just_resampled) :
          Returns("resample", r)
    /\ UNCHANGED <<n_particles, n_dims, tuning_parameters>>

randdraw ==
    /\ ncalls < MaxCalls
    /\ call' = Call("randdraw", randdraw_raises(particle_weights, n_particles))
    /\ ncalls' = ncalls + 1
    /\ UNCHANGED <<particles, n_particles, n_dims, particle_weights,
                   just_resampled, tuning_parameters>>

mean ==
    /\ ncalls < MaxCalls
    /\ call' = Call("mean", mean_raises(particle_weights, n_particles))
    /\ ncalls' = ncalls + 1
    /\ UNCHANGED <<particles, n_particles, n_dims, particle_weights,
                   just_resampled, tuning_parameters>>

\* the caller writes tuning_parameters between two calls
set_tuning(threshold, auto) ==
    /\ ncalls < MaxCalls
    /\ tuning_parameters' = [tuning_parameters EXCEPT
                                !.resample_threshold = threshold,
                                !.auto_resample = auto]
    /\ tuning_parameters' # tuning_parameters
    /\ UNCHANGED <<particles, n_particles, n_dims, particle_weights,
                   just_resampled, call, ncalls>>

Next ==
    \/ \E samples \in Samples, weights \in Weights \cup {None} :
          set_pdf(samples, weights)
    \/ \E likelihood \in Likelihoods : bayesian_update(likelihood)
    \/ resample_test
    \/ resample
    \/ randdraw
    \/ mean
    \/ \E threshold \in Thresholds, auto \in BOOLEAN :
          set_tuning(threshold, auto)

Spec == Init /\ [][Next]_vars

\* ------------------------------------------------- calls with valid inputs
\* The preconditions the specification puts on the caller: arrays of the
\* right length, non-negative, with a non-zero normalising sum.
NonNegative(v) == \A i \in 1..Len(v) : IsFin(v[i]) /\ v[i].m >= 0

ValidWeights(samples, weights) ==
    \/ weights = None
    \/ /\ Len(weights) = Len(samples[1])
       /\ NonNegative(weights)
       /\ ~IsZero(FSum(weights))

ValidLikelihood(likelihood) ==
    /\ Len(likelihood) = n_particles
    /\ Len(particle_weights) = n_particles
    /\ NonNegative(likelihood)
    /\ ~IsZero(FSum(VMul(particle_weights, likelihood)))

NextValid ==
    \/ \E samples \in Samples, weights \in Likelihoods \cup {None} :
          ValidWeights(samples, weights) /\ set_pdf(samples, weights)
    \/ \E likelihood \in Likelihoods :
          ValidLikelihood(likelihood) /\ bayesian_update(likelihood)
    \/ resample_test
    \/ resample
    \/ randdraw
    \/ mean
    \/ \E threshold \in Thresholds, auto \in BOOLEAN :
          set_tuning(threshold, auto)

SpecValid == Init /\ [][NextValid]_vars

\* ------------------------------------------------------ exact comparisons
\* The properties compare the stored floating-point values exactly, as
\* integers scaled by a common power of two.
AllFinite(v) == \A i \in 1..Len(v) : IsFin(v[i])

RECURSIVE MinExpTo(_, _)
MinExpTo(v, i) ==
    IF i = 0 THEN 1 - MantBits
    ELSE LET rest == MinExpTo(v, i - 1)
         IN IF v[i].e < rest THEN v[i].e ELSE rest

\* x * 2^(-lo) for an lo not above the exponent of x
Scaled(x, lo) == x.m * Pow2(x.e - lo)

RECURSIVE ScaledSumTo(_, _, _)
ScaledSumTo(v, lo, i) ==
    IF i = 0 THEN 0 ELSE ScaledSumTo(v, lo, i - 1) + Scaled(v[i], lo)

\* machine epsilon is 2^(1 - MantBits).  |sum(v) - 1| <= Len(v) * epsilon
SumIsOne(v) ==
    /\ AllFinite(v)
    /\ LET lo == MinExpTo(v, Len(v))
       IN Abs(ScaledSumTo(v, lo, Len(v)) - Pow2(-lo))
             <= Len(v) * Pow2(1 - MantBits - lo)

\* the stored values add up to exactly 1
SumIsExactlyOne(v) ==
    /\ AllFinite(v)
    /\ LET lo == MinExpTo(v, Len(v))
       IN ScaledSumTo(v, lo, Len(v)) = Pow2(-lo)

\* x = c within the relative tolerance 4 * len * epsilon (a bound on the
\* rounding error of 1 / (w @ w) for weights that satisfy SumIsOne)
AtMostWithin(x, c, len) ==
    /\ IsFin(x)
    /\ LET lo == IF x.e < 1 - MantBits THEN x.e ELSE 1 - MantBits
       IN Scaled(x, lo) <= c * Pow2(-lo) + 4 * len * c * Pow2(1 - MantBits - lo)

AtLeastWithin(x, c, len) ==
    /\ IsFin(x)
    /\ LET lo == IF x.e < 1 - MantBits THEN x.e ELSE 1 - MantBits
       IN Scaled(x, lo) >= c * Pow2(-lo) - 4 * len * c * Pow2(1 - MantBits - lo)

OneHot(v) ==
    \E i \in 1..Len(v) : v[i] = One /\ \A j \in 1..Len(v) : j # i => v[j] = Zero

\* the step is a call of the method op
IsCall(op) == ncalls' = ncalls + 1 /\ call'.op = op

Ones(n) == [i \in 1..n |-> One]

\* ------------------------------------------------------------------ claims

\* C1: with valid inputs only, after every construct, set_pdf,
\* bayesian_update and resample (and every other call) the weights are
\* finite and sum to 1 within n_particles machine epsilons.
C1_WeightsSumToOne == SumIsOne(particle_weights)

\* a Bayesian update has returned weights that are not uniform and whose
\* stored values do not add up to exactly 1
C1_Witness ==
    /\ call = Call("bayesian_update", "none")
    /\ particle_weights # Uniform(n_particles)
    /\ ~SumIsExactlyOne(particle_weights)

\* C2: a set_pdf whose weights do not match the columns of the new samples
\* raises and leaves particles, n_dims, n_particles and the weights as they
\* were.
C2_SetPdfMismatchAtomic ==
    [][IsCall("set_pdf") =>
         \A samples \in Samples, weights \in Weights :
            (Len(weights) # Len(samples[1]) /\ set_pdf(samples, weights)) =>
               /\ call'.raised = "ValueError"
               /\ UNCHANGED <<particles, n_dims, n_particles,
                              particle_weights>>]_vars

\* C3: a bayesian_update whose likelihood is not n_particles long, length 1
\* included, raises before it changes weights, particles or just_resampled.
C3_UpdateMismatchRaises ==
    [][IsCall("bayesian_update") =>
         \A likelihood \in Likelihoods :
            (Len(likelihood) # n_particles /\ bayesian_update(likelihood)) =>
               /\ call'.raised = "ValueError"
               /\ UNCHANGED <<particle_weights, particles, just_resampled>>]_vars

\* C4: a bayesian_update whose normalising sum is zero raises and never
\* leaves weights that are not finite.
C4_DegenerateUpdateRaises ==
    [][IsCall("bayesian_update") =>
         \A likelihood \in Likelihoods :
            (/\ CanBroadcast(particle_weights, likelihood)
             /\ IsZero(FSum(Broadcast(particle_weights, likelihood)))
             /\ bayesian_update(likelihood)) =>
               /\ call'.raised # "none"
               /\ AllFinite(particle_weights')]_vars

\* C5: every resample_test ends with just_resampled equal to the outcome of
\* the test n_eff / n_particles < resample_threshold on the weights at entry.
C5_FlagIsTestOutcome ==
    [][IsCall("resample_test") =>
         just_resampled' = NeedsResample(particle_weights, n_particles,
                              tuning_parameters.resample_threshold)]_vars

\* C6: bayesian_update follows auto_resample as it is when called.  When it
\* is true and the call returns, the flag is the outcome of the test on the
\* renormalised weights: either a resampling happened (flag set, weights
\* uniform) or the stored weights pass the test (flag cleared, particles
\* kept).  When it is false, particles, n_dims, n_particles and
\* just_resampled keep their values.
C6_AutoResampleReadAtCall ==
    [][IsCall("bayesian_update") =>
         IF tuning_parameters.auto_resample
         THEN call'.raised = "none" =>
                 IF just_resampled'
                 THEN particle_weights' = Uniform(n_particles)
                 ELSE /\ ~NeedsResample(particle_weights', n_particles,
                                        tuning_parameters.resample_threshold)
                      /\ particles' = particles
         ELSE UNCHANGED <<particles, n_dims, n_particles,
                          just_resampled>>]_vars

\* with auto_resample off, an update has returned weights that fail the
\* degeneracy test, and no resampling was flagged
C6_Witness ==
    /\ call = Call("bayesian_update", "none")
    /\ ~tuning_parameters.auto_resample
    /\ ~just_resampled
    /\ NeedsResample(particle_weights, n_particles,
                     tuning_parameters.resample_threshold)

\* C7: particles is n_dims x n_particles and the weights are n_particles
\* long in every state, after failed calls too, and resample and
\* bayesian_update keep n_dims and n_particles.
ShapeConsistent ==
    /\ Len(particles) = n_dims
    /\ \A i \in 1..Len(particles) : Len(particles[i]) = n_particles
    /\ Len(particle_weights) = n_particles

C7_ShapesConsistent ==
    /\ []ShapeConsistent
    /\ [][(IsCall("resample") \/ IsCall("bayesian_update")) =>
            UNCHANGED <<n_dims, n_particles>>]_vars

\* C8: from uniform weights, an all-ones likelihood leaves weights and
\* particles as they were and, the degeneracy test being on, leaves
\* just_resampled false, for every threshold in (0, 1].
C8_UniformLikelihoodIdle ==
    [][(/\ particle_weights = Uniform(n_particles)
        /\ bayesian_update(Ones(n_particles))) =>
          /\ particle_weights' = particle_weights
          /\ particles' = particles
          /\ tuning_parameters.auto_resample => just_resampled' = FALSE]_vars

\* C9 as stated: for the weights the instance holds that sum to 1, with n
\* the number of weights, 1 <= n_eff <= n, n_eff = n iff the weights are
\* uniform, and n_eff = 1 iff one weight is 1 and the others are 0.
C9_NEffBoundsAsStated ==
    SumIsExactlyOne(particle_weights) =>
       LET n_eff == NEff(particle_weights)
           len == Len(particle_weights)
       IN /\ IsFin(n_eff)
          /\ ~FLess(n_eff, One)
          /\ ~FLess(FromInt(len), n_eff)
          /\ (n_eff = FromInt(len)) <=> (particle_weights = Uniform(len))
          /\ (n_eff = One) <=> OneHot(particle_weights)

\* C9 amended: for the non-negative weights the instance holds that sum to
\* 1 within rounding, n_eff lies between 1 and the number of weights within
\* the rounding tolerance; uniform weights give n_eff equal to the number
\* of weights within that tolerance, and a one-hot vector gives exactly 1.
C9_NEffBounds ==
    (SumIsOne(particle_weights) /\ NonNegative(particle_weights)) =>
       LET n_eff == NEff(particle_weights)
           len == Len(particle_weights)
       IN /\ AtLeastWithin(n_eff, 1, len)
          /\ AtMostWithin(n_eff, len, len)
          /\ (particle_weights = Uniform(len)) => AtLeastWithin(n_eff, len, len)
          /\ OneHot(particle_weights) => n_eff = One

\* the instance holds non-negative weights summing to 1 that are neither
\* uniform nor one-hot
C9_Witness ==
    /\ call = Call("bayesian_update", "none")
    /\ SumIsOne(particle_weights)
    /\ NonNegative(particle_weights)
    /\ particle_weights # Uniform(Len(particle_weights))
    /\ ~OneHot(particle_weights)

\* C10: a resample_test that directly follows a resampling (a returned
\* resample, or a resample_test that set the flag) finds uniform weights,
\* does not resample and clears the flag, for every threshold in (0, 1].
C10_NoResampleTwice ==
    [][(/\ call.raised = "none"
        /\ \/ call.op = "resample"
           \/ call.op = "resample_test" /\ just_resampled
        /\ IsCall("resample_test")) =>
          /\ particle_weights = Uniform(n_particles)
          /\ call'.raised = "none"
          /\ just_resampled' = FALSE
          /\ particles' = particles]_vars

====
